---- MODULE Spec2Model ----
(***************************************************************************)
(* Model of the App Store screenshot batch scripts of mneves75/dnschat:    *)
(* ten standalone Python scripts that enumerate input PNG files, transform *)
(* each one (scale-to-fit on a white canvas, plain resize, crop-to-fill,   *)
(* or device mockup on a gradient background) and save a PNG per           *)
(* (dimension set, input file).                                            *)
(*                                                                         *)
(* Python floats are IEEE-754 doubles; true division, float multiplication *)
(* and int() are modelled bit-exactly on 53-bit significands held as       *)
(* little-endian limb sequences, because int(original_width * scale)       *)
(* depends on the rounding (int(139 * (1290 / 139)) is 1289, not 1290).    *)
(***************************************************************************)
EXTENDS Integers, Sequences, FiniteSets, TLC

(***************************************************************************)
(* Arbitrary-precision naturals: little-endian sequences of limbs < Base.  *)
(* <<>> is zero; a normalised number has a non-zero last limb.             *)
(***************************************************************************)
Base == 32768

LimbBits == 15

MantBits == 53

RECURSIVE Pow2(_)
Pow2(n) == IF n = 0 THEN 1 ELSE 2 * Pow2(n - 1)

RECURSIVE BitLen(_)
BitLen(n) == IF n = 0 THEN 0 ELSE 1 + BitLen(n \div 2)

RECURSIVE BNorm(_)
BNorm(a) ==
  IF a = <<>> THEN <<>>
  ELSE IF a[Len(a)] = 0 THEN BNorm(SubSeq(a, 1, Len(a) - 1))
  ELSE a

RECURSIVE BFromInt(_)
BFromInt(n) == IF n = 0 THEN <<>> ELSE <<n % Base>> \o BFromInt(n \div Base)

RECURSIVE BToInt(_)
BToInt(a) == IF a = <<>> THEN 0 ELSE a[1] + Base * BToInt(Tail(a))

BLimb(a, k) == IF k <= Len(a) THEN a[k] ELSE 0

BBitLen(a) == IF a = <<>> THEN 0 ELSE LimbBits * (Len(a) - 1) + BitLen(a[Len(a)])

\* -1, 0, 1 as a < b, a = b, a > b (both normalised)
RECURSIVE BCmpFrom(_, _, _)
BCmpFrom(a, b, k) ==
  IF k = 0 THEN 0
  ELSE IF a[k] < b[k] THEN -1
  ELSE IF a[k] > b[k] THEN 1
  ELSE BCmpFrom(a, b, k - 1)

BCmp(a, b) ==
  IF Len(a) < Len(b) THEN -1
  ELSE IF Len(a) > Len(b) THEN 1
  ELSE BCmpFrom(a, b, Len(a))

RECURSIVE BAddFrom(_, _, _, _)
BAddFrom(a, b, k, carry) ==
  IF k > Len(a) /\ k > Len(b)
  THEN (IF carry = 0 THEN <<>> ELSE <<carry>>)
  ELSE LET s == BLimb(a, k) + BLimb(b, k) + carry
       IN  <<s % Base>> \o BAddFrom(a, b, k + 1, s \div Base)

BAdd(a, b) == BAddFrom(a, b, 1, 0)

\* a - b for a >= b
RECURSIVE BSubFrom(_, _, _, _)
BSubFrom(a, b, k, borrow) ==
  IF k > Len(a) THEN <<>>
  ELSE LET s == a[k] - BLimb(b, k) - borrow
       IN  IF s < 0 THEN <<s + Base>> \o BSubFrom(a, b, k + 1, 1)
           ELSE <<s>> \o BSubFrom(a, b, k + 1, 0)

BSub(a, b) == BNorm(BSubFrom(a, b, 1, 0))

\* a * n for 0 <= n < Base
RECURSIVE BMulSmallFrom(_, _, _, _)
BMulSmallFrom(a, n, k, carry) ==
  IF k > Len(a)
  THEN (IF carry = 0 THEN <<>> ELSE <<carry>>)
  ELSE LET s == a[k] * n + carry
       IN  <<s % Base>> \o BMulSmallFrom(a, n, k + 1, s \div Base)

BMulSmall(a, n) == BNorm(BMulSmallFrom(a, n, 1, 0))

RECURSIVE Zeros(_)
Zeros(n) == IF n = 0 THEN <<>> ELSE <<0>> \o Zeros(n - 1)

BShiftLimbs(a, n) == IF a = <<>> THEN <<>> ELSE Zeros(n) \o a

\* a * 2^n
BShl(a, n) == BMulSmall(BShiftLimbs(a, n \div LimbBits), Pow2(n % LimbBits))

\* floor(a / n) for 0 < n < Base: long division from the top limb down
RECURSIVE BDivSmallFrom(_, _, _, _)
BDivSmallFrom(a, n, k, rem) ==
  IF k = 0 THEN <<>>
  ELSE LET cur == rem * Base + a[k]
       IN  BDivSmallFrom(a, n, k - 1, cur % n) \o <<cur \div n>>

BDivSmall(a, n) == BNorm(BDivSmallFrom(a, n, Len(a), 0))

\* floor(a / 2^n)
BShr(a, n) ==
  IF n \div LimbBits >= Len(a) THEN <<>>
  ELSE BDivSmall(SubSeq(a, (n \div LimbBits) + 1, Len(a)), Pow2(n % LimbBits))

\* a mod 2^n
BLow(a, n) == BSub(a, BShl(BShr(a, n), n))

BOdd(a) == a # <<>> /\ a[1] % 2 = 1

BOne == <<1>>

(***************************************************************************)
(* Positive IEEE-754 doubles: [m, e] stands for m * 2^e with               *)
(* 2^52 <= m < 2^53.  Rounding is round-half-to-even, as the hardware does *)
(* for Python's float / and *.  Python converts an int operand to float    *)
(* exactly (all ints here are far below 2^53), so int / int, int * float   *)
(* and int / float are the correctly rounded quotient or product.          *)
(***************************************************************************)
\* a rounded significand: a carry out of 53 bits halves it
Renorm(m, e) ==
  IF BBitLen(m) > MantBits THEN [m |-> BShr(m, 1), e |-> e + 1]
  ELSE [m |-> m, e |-> e]

\* round half to even: hi are the kept bits, c compares the dropped bits
\* with one half (-1, 0, 1), sticky says that bits were lost below them
RoundHalfEven(hi, c, e, sticky) ==
  Renorm(IF c = 1 \/ (c = 0 /\ (sticky \/ BOdd(hi))) THEN BAdd(hi, BOne) ELSE hi, e)

\* q * 2^e with the lowest `drop` bits of q rounded away
RoundAt(q, e, sticky, drop) ==
  IF drop <= 0 THEN [m |-> BShl(q, 0 - drop), e |-> e + drop]
  ELSE RoundHalfEven(BShr(q, drop), BCmp(BLow(q, drop), BShl(BOne, drop - 1)),
                     e + drop, sticky)

\* q * 2^e, where sticky says that non-zero bits were already lost below q:
\* keep the top 53 bits of q, round half to even
RoundSig(q, e, sticky) == RoundAt(q, e, sticky, BBitLen(q) - MantBits)

\* float(n) for an int 1 <= n < 2^31 (exact)
FloatOfInt(n) ==
  [m |-> BShl(BFromInt(n), MantBits - BitLen(n)), e |-> BitLen(n) - MantBits]

\* t / o for ints 1 <= t, o < Base: floor(t * 2^75 / o) has at least 61 bits
QuotShift == 75

\* q = floor(num / o); bits are lost when q * o # num
QuotSticky(num, o, q) == RoundSig(q, 0 - QuotShift, BCmp(BMulSmall(q, o), num) # 0)

QuotRound(num, o) == QuotSticky(num, o, BDivSmall(num, o))

FDivInt(t, o) == QuotRound(BShl(BFromInt(t), QuotShift), o)

\* n * a for an int 1 <= n < Base
FMulInt(n, a) == RoundSig(BMulSmall(a.m, n), a.e, FALSE)

\* binary long division: one quotient bit per step until the quotient has
\* `bits` significant bits; returns <<quotient, remainder>>
RECURSIVE DivSteps(_, _, _, _)
RECURSIVE DivStep(_, _, _, _)
DivStep(q2, r2, dv, bits) ==
  IF BCmp(r2, dv) >= 0
  THEN DivSteps(BAdd(q2, BOne), BSub(r2, dv), dv, bits)
  ELSE DivSteps(q2, r2, dv, bits)

DivSteps(q, r, dv, bits) ==
  IF BBitLen(q) >= bits THEN <<q, r>>
  ELSE DivStep(BShl(q, 1), BShl(r, 1), dv, bits)

FDivRound(qr, e) == RoundSig(qr[1], e, qr[2] # <<>>)

\* ge: a.m >= b.m, so the first quotient bit is 1 and one step is saved
FDivFrom(a, b, ge) ==
  FDivRound(DivSteps(IF ge THEN BOne ELSE <<>>,
                     IF ge THEN BSub(a.m, b.m) ELSE a.m,
                     b.m, MantBits + 2),
            a.e - b.e - (IF ge THEN MantBits + 1 ELSE MantBits + 2))

\* a / b: the significands' quotient lies in (1/2, 2); MantBits + 2 quotient
\* bits are produced, which takes one step more when a.m < b.m
FDiv(a, b) == FDivFrom(a, b, BCmp(a.m, b.m) >= 0)

FLess(a, b) == a.e < b.e \/ (a.e = b.e /\ BCmp(a.m, b.m) < 0)

\* Python's min(a, b): b if b < a, else a
FMin(a, b) == IF FLess(b, a) THEN b ELSE a

\* int(a): truncation of a positive float below 2^31
FInt(a) == IF a.e >= 0 THEN BToInt(BShl(a.m, a.e)) ELSE BToInt(BShr(a.m, 0 - a.e))

(***************************************************************************)
(* Text: file names are sequences of one-character strings, so that        *)
(* Path.stem, glob matching, sorting and f-string formatting are computed  *)
(* character by character.                                                 *)
(***************************************************************************)
\* code points of the characters that occur in the modelled names
Ord(c) ==
  CASE c = "." -> 46
    [] c = "0" -> 48 [] c = "1" -> 49 [] c = "2" -> 50 [] c = "3" -> 51
    [] c = "4" -> 52 [] c = "5" -> 53 [] c = "6" -> 54 [] c = "7" -> 55
    [] c = "8" -> 56 [] c = "9" -> 57
    [] c = "G" -> 71 [] c = "I" -> 73 [] c = "M" -> 77 [] c = "N" -> 78
    [] c = "P" -> 80 [] c = "_" -> 95
    [] c = "a" -> 97 [] c = "b" -> 98 [] c = "g" -> 103 [] c = "j" -> 106
    [] c = "n" -> 110 [] c = "p" -> 112 [] c = "x" -> 120

Digits == <<"0", "1", "2", "3", "4", "5", "6", "7", "8", "9">>

\* str(n) for n >= 0
RECURSIVE Str(_)
Str(n) == IF n < 10 THEN <<Digits[n + 1]>> ELSE Str(n \div 10) \o <<Digits[(n % 10) + 1]>>

\* f"{n:02d}": zero-padded to at least two digits
Fmt02d(n) == IF n < 10 THEN <<"0">> \o Str(n) ELSE Str(n)

\* f"{n:2d}": space-padded to at least two characters
Fmt2d(n) == IF n < 10 THEN <<" ">> \o Str(n) ELSE Str(n)

EndsWith(t, suf) ==
  Len(t) >= Len(suf) /\ SubSeq(t, Len(t) - Len(suf) + 1, Len(t)) = suf

\* t contains sub as a contiguous run of characters
Contains(t, sub) ==
  \E k \in 0..(Len(t) - Len(sub)) : SubSeq(t, k + 1, k + Len(sub)) = sub

\* the largest index of a "." in t, 0 when there is none (str.rfind + 1)
RECURSIVE LastDot(_)
LastDot(t) ==
  IF t = <<>> THEN 0
  ELSE IF t[Len(t)] = "." THEN Len(t)
  ELSE LastDot(SubSeq(t, 1, Len(t) - 1))

\* pathlib PurePath.stem: the name without its last suffix; a leading or a
\* trailing dot does not start a suffix
stem(name) ==
  IF 1 < LastDot(name) /\ LastDot(name) < Len(name)
  THEN SubSeq(name, 1, LastDot(name) - 1)
  ELSE name

\* str < str: lexicographic by code point
RECURSIVE StrLess(_, _)
StrLess(a, b) ==
  IF b = <<>> THEN FALSE
  ELSE IF a = <<>> THEN TRUE
  ELSE IF Ord(a[1]) # Ord(b[1]) THEN Ord(a[1]) < Ord(b[1])
  ELSE StrLess(Tail(a), Tail(b))

\* list.sort() / sorted(): insertion of each element behind the elements that
\* are not greater (stable)
RECURSIVE InsertSorted(_, _)
InsertSorted(x, srt) ==
  IF srt = <<>> THEN <<x>>
  ELSE IF StrLess(x, srt[1]) THEN <<x>> \o srt
  ELSE <<srt[1]>> \o InsertSorted(x, Tail(srt))

RECURSIVE sorted(_)
sorted(lst) ==
  IF lst = <<>> THEN <<>>
  ELSE InsertSorted(lst[Len(lst)], sorted(SubSeq(lst, 1, Len(lst) - 1)))

(***************************************************************************)
(* Pillow images: [mode, w, h].  An operation that can raise returns       *)
(* [raised, img]; NoImage stands for "no value".                           *)
(***************************************************************************)
NoImage == [mode |-> "none", w |-> 0, h |-> 0]

\* Image.new(mode, (w, h), color)
Image_new(mode, w, h) == [mode |-> mode, w |-> w, h |-> h]

\* faulty variant of convert: the mode is left as it was
convert_keeps_mode(image, mode) == image

\* Image.convert(mode)
convert(image, mode) == [image EXCEPT !.mode = mode]

\* Image.resize((w, h), LANCZOS): ValueError unless both requested sides are
\* positive.  Resampling an empty source (a crop of zero width) is left to
\* the library: emptyRaises chooses whether it raises or yields the
\* requested size.
resize(image, w, h, emptyRaises) ==
  IF w < 1 \/ h < 1 THEN [raised |-> TRUE, img |-> NoImage]
  ELSE IF (image.w < 1 \/ image.h < 1) /\ emptyRaises
  THEN [raised |-> TRUE, img |-> NoImage]
  ELSE [raised |-> FALSE, img |-> [image EXCEPT !.w = w, !.h = h]]

\* Image.crop((left, upper, right, lower))
crop(image, left, upper, right, lower) ==
  [image EXCEPT !.w = right - left, !.h = lower - upper]

\* faulty variant of paste: the pasted image takes the place of the canvas
paste_returns_pasted(canvas, im, x, y) == im

\* Image.paste(im, (x, y)[, mask]): in place, the canvas keeps mode and size
paste(canvas, im, x, y) == canvas

\* Image.putalpha(mask): in place, an RGB image becomes RGBA
putalpha(image) == [image EXCEPT !.mode = "RGBA"]

\* Image.alpha_composite(im1, im2): both RGBA and of equal size, else ValueError
alpha_composite(im1, im2) ==
  IF im1.mode = "RGBA" /\ im2.mode = "RGBA" /\ im1.w = im2.w /\ im1.h = im2.h
  THEN [raised |-> FALSE, img |-> im1]
  ELSE [raised |-> TRUE, img |-> NoImage]

(***************************************************************************)
(* Geometry of the three plain converters.  Each returns                   *)
(* [raised, img] plus the numbers the code computes on the way.            *)
(***************************************************************************)
\* what resize_and_fit_screenshot has computed when it returns or raises
fit_result(resized, canvas, new_width, new_height, x_offset, y_offset) ==
  [raised     |-> resized.raised,
   img        |-> IF resized.raised THEN NoImage
                  ELSE paste(canvas, resized.img, x_offset, y_offset),
   new_width  |-> new_width,
   new_height |-> new_height,
   x_offset   |-> x_offset,
   y_offset   |-> y_offset]

\* faulty variant of paste_centred: the scaled image is pasted at the top
\* left corner
paste_top_left(image, target_width, target_height, new_width, new_height) ==
  fit_result(resize(image, new_width, new_height, FALSE),
             Image_new("RGB", target_width, target_height),
             new_width, new_height, 0, 0)

\* resize to the new size, white RGB canvas of the target size,
\* x_offset = (target_width - new_width) // 2, y_offset likewise, paste
paste_centred(image, target_width, target_height, new_width, new_height) ==
  fit_result(resize(image, new_width, new_height, FALSE),
             Image_new("RGB", target_width, target_height),
             new_width, new_height,
             (target_width - new_width) \div 2,
             (target_height - new_height) \div 2)

\* new_width = int(original_width * scale), new_height likewise
scale_to(image, target_width, target_height, scale) ==
  paste_centred(image, target_width, target_height,
                FInt(FMulInt(image.w, scale)), FInt(FMulInt(image.h, scale)))

\* resize_and_fit_screenshot (identical in convert_all_originals,
\* create_appstore_compliant and convert_ipad_screenshots):
\* scale = min(target_width / original_width, target_height / original_height)
resize_and_fit_screenshot(image, target_width, target_height) ==
  scale_to(image, target_width, target_height,
           FMin(FDivInt(target_width, image.w), FDivInt(target_height, image.h)))

\* faulty variant of resize_exact: the height follows the source's aspect ratio
resize_exact_keeps_aspect(image, target_width, target_height) ==
  resize(image, target_width, (image.h * target_width) \div image.w, FALSE)

\* iPadExactConverter.resize_exact
resize_exact(image, target_width, target_height) ==
  resize(image, target_width, target_height, FALSE)

\* crop to the box (left, top, right, bottom), then resize to the target
crop_and_resize(image, target_width, target_height, emptyRaises, box) ==
  LET cropped == crop(image, box.left, box.top, box.right, box.bottom)
      resized == resize(cropped, target_width, target_height, emptyRaises)
  IN  [raised |-> resized.raised, img |-> resized.img, box |-> box]

\* faulty variant of crop_width: the columns are taken from the left edge
crop_width_from_left(image, target_width, target_height, emptyRaises, new_width) ==
  crop_and_resize(image, target_width, target_height, emptyRaises,
                  [left |-> 0, top |-> 0, right |-> new_width, bottom |-> image.h])

\* the image is wider than the target: full height, new_width columns from
\* left = (original_width - new_width) // 2
crop_width(image, target_width, target_height, emptyRaises, new_width) ==
  LET left == (image.w - new_width) \div 2
  IN  crop_and_resize(image, target_width, target_height, emptyRaises,
                      [left |-> left, top |-> 0,
                       right |-> left + new_width, bottom |-> image.h])

\* the image is taller than the target: full width, new_height rows from
\* top = (original_height - new_height) // 2
crop_height(image, target_width, target_height, emptyRaises, new_height) ==
  LET top == (image.h - new_height) \div 2
  IN  crop_and_resize(image, target_width, target_height, emptyRaises,
                      [left |-> 0, top |-> top,
                       right |-> image.w, bottom |-> top + new_height])

\* faulty variant of crop_to_aspect: the comparison is the wrong way round
crop_to_aspect_inverted(image, target_width, target_height, emptyRaises, target_aspect, original_aspect) ==
  IF FLess(original_aspect, target_aspect)
  THEN crop_width(image, target_width, target_height, emptyRaises,
                  FInt(FMulInt(image.h, target_aspect)))
  ELSE crop_height(image, target_width, target_height, emptyRaises,
                   FInt(FDiv(FloatOfInt(image.w), target_aspect)))

\* "if original_aspect > target_aspect": new_width = int(original_height *
\* target_aspect), else new_height = int(original_width / target_aspect)
crop_to_aspect(image, target_width, target_height, emptyRaises, target_aspect, original_aspect) ==
  IF FLess(target_aspect, original_aspect)
  THEN crop_width(image, target_width, target_height, emptyRaises,
                  FInt(FMulInt(image.h, target_aspect)))
  ELSE crop_height(image, target_width, target_height, emptyRaises,
                   FInt(FDiv(FloatOfInt(image.w), target_aspect)))

\* iPadSimpleConverter.resize_no_borders
resize_no_borders(image, target_width, target_height, emptyRaises) ==
  crop_to_aspect(image, target_width, target_height, emptyRaises,
                 FDivInt(target_width, target_height), FDivInt(image.w, image.h))

(***************************************************************************)
(* The ten scripts and their literal configuration.                        *)
(***************************************************************************)
DirScripts ==
  {"convert_all_originals", "convert_ipad_exact", "convert_ipad_screenshots",
   "convert_ipad_simple", "convert_ipad_2024_appstore",
   "convert_iphone_2024_appstore", "convert_macos_appstore"}

ListScripts ==
  {"create_appstore_compliant", "create_premium_screenshots",
   "generate_modern_screenshots"}

Scripts == DirScripts \cup ListScripts

\* the converters that wrap one file's conversion in try/except Exception
TryScripts ==
  {"convert_all_originals", "convert_ipad_exact", "convert_ipad_screenshots",
   "convert_ipad_simple"}

\* the three mockup converters that cycle through screenshot_configs
MockupConverters ==
  {"convert_ipad_2024_appstore", "convert_iphone_2024_appstore",
   "convert_macos_appstore"}

Dim(w, h, name) == [width |-> w, height |-> h, name |-> name]

\* self.dimensions in iteration order; the mockup scripts have the single
\* module-level SCREENSHOT_WIDTH x SCREENSHOT_HEIGHT and no dimension name
dimensions(s) ==
  CASE s = "convert_all_originals" ->
         <<Dim(1290, 2796, <<"6", ".", "9", "_", "p", "r", "i", "m", "a", "r", "y">>), Dim(1320, 2868, <<"6", ".", "9", "_", "a", "l", "t", "e", "r", "n", "a", "t", "i", "v", "e">>)>>
    [] s = "create_appstore_compliant" ->
         <<Dim(1290, 2796, <<"6", ".", "9", "_", "p", "r", "i", "m", "a", "r", "y">>), Dim(1320, 2868, <<"6", ".", "9", "_", "a", "l", "t", "e", "r", "n", "a", "t", "i", "v", "e">>)>>
    [] s = "convert_ipad_exact" ->
         <<Dim(2064, 2752, <<"2", "0", "6", "4", "x", "2", "7", "5", "2">>), Dim(2752, 2064, <<"2", "7", "5", "2", "x", "2", "0", "6", "4">>),
           Dim(2048, 2732, <<"2", "0", "4", "8", "x", "2", "7", "3", "2">>), Dim(2732, 2048, <<"2", "7", "3", "2", "x", "2", "0", "4", "8">>)>>
    [] s = "convert_ipad_screenshots" ->
         <<Dim(2064, 2752, <<"i", "p", "a", "d", "_", "1", "3", "_", "p", "o", "r", "t", "r", "a", "i", "t">>), Dim(2752, 2064, <<"i", "p", "a", "d", "_", "1", "3", "_", "l", "a", "n", "d", "s", "c", "a", "p", "e">>),
           Dim(2048, 2732, <<"i", "p", "a", "d", "_", "1", "2", "_", "p", "o", "r", "t", "r", "a", "i", "t">>), Dim(2732, 2048, <<"i", "p", "a", "d", "_", "1", "2", "_", "l", "a", "n", "d", "s", "c", "a", "p", "e">>)>>
    [] s = "convert_ipad_simple" ->
         <<Dim(2064, 2752, <<"i", "p", "a", "d", "_", "1", "3">>), Dim(2048, 2732, <<"i", "p", "a", "d", "_", "1", "2">>)>>
    [] s = "convert_ipad_2024_appstore" -> <<Dim(2752, 2064, <<>>)>>
    [] s = "convert_iphone_2024_appstore" -> <<Dim(1320, 2868, <<>>)>>
    [] s = "convert_macos_appstore" -> <<Dim(2560, 1600, <<>>)>>
    [] s = "create_premium_screenshots" -> <<Dim(1242, 2688, <<>>)>>
    [] s = "generate_modern_screenshots" -> <<Dim(1242, 2688, <<>>)>>

\* the hard-coded input names of the three generators, in list order
ListedInputs ==
  <<<<"I", "M", "G", "_", "8", "8", "7", "4", ".", "P", "N", "G">>, <<"I", "M", "G", "_", "8", "8", "7", "0", ".", "P", "N", "G">>, <<"I", "M", "G", "_", "8", "8", "7", "1", ".", "P", "N", "G">>, <<"I", "M", "G", "_", "8", "8", "7", "2", ".", "P", "N", "G">>,
    <<"I", "M", "G", "_", "8", "8", "7", "3", ".", "P", "N", "G">>>>

\* color_schemes[k]["name"] of generate_modern_screenshots
SchemeNames ==
  <<<<"h", "e", "r", "o">>, <<"f", "e", "a", "t", "u", "r", "e", "s">>, <<"p", "r", "i", "v", "a", "c", "y">>, <<"n", "e", "t", "w", "o", "r", "k">>, <<"o", "n", "b", "o", "a", "r", "d", "i", "n", "g">>>>

\* len(self.screenshot_configs) of the mockup converters
NumConfigs == 8

\* the glob patterns "*.PNG" / "*.png" of each directory converter, as suffixes
GlobSuffixes(s) ==
  CASE s = "convert_ipad_2024_appstore" -> <<<<".", "P", "N", "G">>>>
    [] s = "convert_iphone_2024_appstore" -> <<<<".", "P", "N", "G">>>>
    [] s = "convert_macos_appstore" -> <<<<".", "p", "n", "g">>>>
    [] OTHER -> <<<<".", "P", "N", "G">>, <<".", "p", "n", "g">>>>

\* faulty variant of output_name: the index is written zero-based
output_name_zero_based(s, dimension_set, index, input_name) ==
  <<"a", "p", "p", "s", "t", "o", "r", "e", "_">> \o dimension_set.name \o <<"_">> \o Fmt02d(index)
    \o <<"_">> \o stem(input_name) \o <<".", "p", "n", "g">>

\* faulty variant of output_name: the index is left out of the name
output_name_without_index(s, dimension_set, index, input_name) ==
  <<"a", "p", "p", "s", "t", "o", "r", "e", "_">> \o dimension_set.name \o <<"_">> \o stem(input_name) \o <<".", "p", "n", "g">>

\* faulty variant of output_name: the dimension set is left out of the name
output_name_without_dimension(s, dimension_set, index, input_name) ==
  <<"a", "p", "p", "s", "t", "o", "r", "e", "_">> \o Fmt02d(index + 1) \o <<"_">> \o stem(input_name) \o <<".", "p", "n", "g">>

\* the f-string that names the output of (dimension set, index, input name)
output_name(s, dimension_set, index, input_name) ==
  CASE s \in TryScripts ->
         <<"a", "p", "p", "s", "t", "o", "r", "e", "_">> \o dimension_set.name \o <<"_">> \o Fmt02d(index + 1)
           \o <<"_">> \o stem(input_name) \o <<".", "p", "n", "g">>
    [] s = "convert_ipad_2024_appstore" ->
         <<"i", "p", "a", "d", "_", "2", "0", "2", "4", "_", "a", "p", "p", "s", "t", "o", "r", "e", "_">> \o Fmt02d(index + 1) \o <<"_">> \o stem(input_name) \o <<".", "p", "n", "g">>
    [] s = "convert_iphone_2024_appstore" ->
         <<"i", "p", "h", "o", "n", "e", "_", "2", "0", "2", "4", "_", "a", "p", "p", "s", "t", "o", "r", "e", "_">> \o Fmt02d(index + 1) \o <<"_">> \o stem(input_name) \o <<".", "p", "n", "g">>
    [] s = "convert_macos_appstore" ->
         <<"m", "a", "c", "o", "s", "_", "a", "p", "p", "s", "t", "o", "r", "e", "_">> \o Fmt02d(index + 1) \o <<"_">> \o stem(input_name) \o <<".", "p", "n", "g">>
    [] s = "create_appstore_compliant" ->
         <<"a", "p", "p", "s", "t", "o", "r", "e", "_">> \o dimension_set.name \o <<"_">> \o Fmt02d(index + 1) \o <<".", "p", "n", "g">>
    [] s = "create_premium_screenshots" ->
         <<"p", "r", "e", "m", "i", "u", "m", "_", "s", "c", "r", "e", "e", "n", "s", "h", "o", "t", "_">> \o Str(index + 1) \o <<".", "p", "n", "g">>
    [] s = "generate_modern_screenshots" ->
         <<"m", "o", "d", "e", "r", "n", "_", "s", "c", "r", "e", "e", "n", "s", "h", "o", "t", "_">> \o Str(index + 1) \o <<"_">> \o SchemeNames[index + 1] \o <<".", "p", "n", "g">>

\* create_landscape_versions of create_appstore_compliant
landscape_name(dimension_set, index) ==
  <<"a", "p", "p", "s", "t", "o", "r", "e", "_">> \o dimension_set.name \o <<"_", "l", "a", "n", "d", "s", "c", "a", "p", "e", "_">> \o Fmt02d(index + 1) \o <<".", "p", "n", "g">>


(***************************************************************************)
(* Input files.  A directory entry is [state, mode, w, h]; state is        *)
(* "absent", "corrupt" (present, but Image.open raises) or "image".        *)
(***************************************************************************)
Absent == [state |-> "absent", mode |-> "none", w |-> 0, h |-> 0]

Corrupt == [state |-> "corrupt", mode |-> "none", w |-> 0, h |-> 0]

ImageFile(mode, w, h) == [state |-> "image", mode |-> mode, w |-> w, h |-> h]

Raised == [raised |-> TRUE, img |-> NoImage]

Returned(image) == [raised |-> FALSE, img |-> image]

\* Image.open(path): FileNotFoundError / UnidentifiedImageError unless the
\* entry is a decodable image
Image_open(file) ==
  IF file.state = "image"
  THEN Returned([mode |-> file.mode, w |-> file.w, h |-> file.h])
  ELSE Raised

\* faulty variant of exists: every path is taken to exist
exists_always(file) == TRUE

\* Path.exists()
exists(file) == file.state # "absent"

(***************************************************************************)
(* Mockup compositing.  Drawing (rounded rectangles, text, blur) changes   *)
(* pixels only; mode and size follow the Image calls.                      *)
(***************************************************************************)
\* create_gradient_background of the mockup converters and the premium
\* generator: RGB canvas, RGBA overlay, composite, back to RGB
create_gradient_background(width, height) ==
  LET bg        == Image_new("RGB", width, height)
      overlay   == Image_new("RGBA", width, height)
      composite == alpha_composite(convert(bg, "RGBA"), overlay)
  IN  IF composite.raised THEN Raised ELSE Returned(convert(composite.img, "RGB"))

\* create_ipad_mockup / create_iphone_mockup / create_device_mockup: the
\* screenshot is resized to the fixed device size, framed and laid on a shadow
create_device_mockup(file, device_width, device_height, frame_padding, shadow_offset) ==
  LET opened       == Image_open(file)
      screenshot   == resize(convert(opened.img, "RGBA"), device_width, device_height, FALSE)
      frame_width  == device_width + (frame_padding * 2)
      frame_height == device_height + (frame_padding * 2)
      frame        == Image_new("RGBA", frame_width, frame_height)
      masked       == putalpha(screenshot.img)
      framed       == paste(frame, masked, frame_padding, frame_padding)
      shadow       == Image_new("RGBA", frame_width + shadow_offset * 2,
                                frame_height + shadow_offset * 2)
      result       == alpha_composite(Image_new("RGBA", shadow.w, shadow.h), shadow)
  IN  IF opened.raised \/ screenshot.raised \/ result.raised THEN Raised
      ELSE Returned(paste(result.img, framed, shadow_offset, shadow_offset))

\* int(SCREENSHOT_HEIGHT * scale * 0.8) and int(SCREENSHOT_WIDTH * 0.6) of
\* create_macos_mockup, scale = 0.85
MacTargetHeight == 1088

MacMaxWidth == 1536

\* the resized screenshot in its window frame on the shadow canvas
macos_window(screenshot, target_width, target_height) ==
  LET resized       == resize(screenshot, target_width, target_height, FALSE)
      window_padding   == 30
      title_bar_height == 28
      frame_width   == target_width + (window_padding * 2)
      frame_height  == target_height + (window_padding * 2) + title_bar_height
      window        == Image_new("RGBA", frame_width, frame_height)
      masked        == putalpha(resized.img)
      framed        == paste(window, masked, window_padding, title_bar_height + window_padding)
      shadow_size   == 20
      shadow        == Image_new("RGBA", frame_width + shadow_size * 2,
                                 frame_height + shadow_size * 2)
      result        == alpha_composite(Image_new("RGBA", shadow.w, shadow.h), shadow)
  IN  IF resized.raised \/ result.raised THEN Raised
      ELSE Returned(paste(result.img, framed, shadow_size, shadow_size))

\* "if target_width > max_width": target_width = max_width and
\* target_height = int(target_width / aspect_ratio)
macos_limit(screenshot, aspect_ratio, target_width) ==
  IF target_width > MacMaxWidth
  THEN macos_window(screenshot, MacMaxWidth,
                    FInt(FDiv(FloatOfInt(MacMaxWidth), aspect_ratio)))
  ELSE macos_window(screenshot, target_width, MacTargetHeight)

\* target_width = int(target_height * aspect_ratio)
macos_fit(screenshot, aspect_ratio) ==
  macos_limit(screenshot, aspect_ratio, FInt(FMulInt(MacTargetHeight, aspect_ratio)))

\* create_macos_mockup: the window keeps the screenshot's aspect ratio,
\* aspect_ratio = screenshot.width / screenshot.height
create_macos_mockup(file) ==
  LET opened     == Image_open(file)
      screenshot == convert(opened.img, "RGBA")
  IN  IF opened.raised THEN Raised
      ELSE macos_fit(screenshot, FDivInt(screenshot.w, screenshot.h))

\* the mockup of each script: int(1024 * 0.8) x int(768 * 0.8) for the iPad,
\* int(375 * 0.75) x int(812 * 0.75) for the iPhone, int(375 * 0.7) x
\* int(812 * 0.7) for the premium generator
create_mockup(s, file) ==
  CASE s = "convert_ipad_2024_appstore" -> create_device_mockup(file, 819, 614, 8, 30)
    [] s = "convert_iphone_2024_appstore" -> create_device_mockup(file, 281, 609, 6, 25)
    [] s = "create_premium_screenshots" -> create_device_mockup(file, 262, 568, 8, 20)
    [] s = "convert_macos_appstore" -> create_macos_mockup(file)

\* background.paste(mockup, ...) and the final convert('RGB') of
\* convert_screenshot / PremiumScreenshotGenerator.generate_screenshot
compose(background, mockup) ==
  IF background.raised \/ mockup.raised THEN Raised
  ELSE Returned(convert(paste(convert(background.img, "RGBA"), mockup.img, 0, 0), "RGB"))

\* the body of convert_screenshot / PremiumScreenshotGenerator.generate_screenshot
\* behind the exists() check, up to the image handed to save()
convert_screenshot(s, file, dimension_set) ==
  compose(create_gradient_background(dimension_set.width, dimension_set.height),
          create_mockup(s, file))

DEVICE_WIDTH == 414

DEVICE_HEIGHT == 896

\* ModernScreenshotGenerator.create_device_frame
create_device_frame(screenshot_img) ==
  LET frame   == Image_new("RGBA", DEVICE_WIDTH + 16, DEVICE_HEIGHT + 16)
      resized == resize(screenshot_img, DEVICE_WIDTH, DEVICE_HEIGHT, FALSE)
      masked  == putalpha(resized.img)
  IN  IF resized.raised THEN Raised ELSE Returned(paste(frame, masked, 8, 8))

\* ModernScreenshotGenerator.generate_screenshot up to the image handed to save()
generate_screenshot(file, dimension_set) ==
  LET opened       == Image_open(file)
      original     == convert(opened.img, "RGBA")
      background   == Image_new("RGB", dimension_set.width, dimension_set.height)
      device_frame == create_device_frame(original)
      pasted       == paste(background, device_frame.img, 80,
                            (dimension_set.height - DEVICE_HEIGHT) \div 2)
      text_overlay == Image_new("RGBA", dimension_set.width, dimension_set.height)
      final_image  == alpha_composite(convert(pasted, "RGBA"), text_overlay)
  IN  IF opened.raised THEN Raised
      ELSE IF device_frame.raised \/ final_image.raised THEN Raised
      ELSE Returned(convert(final_image.img, "RGB"))

\* the image a try body or a generator hands to save(), or the exception
handed(opened, result) ==
  IF opened.raised \/ result.raised THEN Raised ELSE Returned(result.img)

\* create_clean_screenshot: open, drop alpha, scale to fit on the canvas
create_clean_screenshot(file, target_width, target_height) ==
  IF Image_open(file).raised THEN Raised
  ELSE handed(Image_open(file),
              resize_and_fit_screenshot(convert(Image_open(file).img, "RGB"),
                                        target_width, target_height))

\* the try body of iPadExactConverter.convert_single_file up to save()
convert_exact(file, dimension_set) ==
  IF Image_open(file).raised THEN Raised
  ELSE resize_exact(convert(Image_open(file).img, "RGB"),
                    dimension_set.width, dimension_set.height)

\* the try body of iPadSimpleConverter.convert_single_file up to save()
convert_no_borders(file, dimension_set, emptyRaises) ==
  IF Image_open(file).raised THEN Raised
  ELSE handed(Image_open(file),
              resize_no_borders(convert(Image_open(file).img, "RGB"),
                                dimension_set.width, dimension_set.height,
                                emptyRaises))

\* what one script computes for one input file and one dimension set between
\* opening the file and save(): [raised, img]
render(s, file, dimension_set, emptyRaises) ==
  CASE s \in {"convert_all_originals", "convert_ipad_screenshots",
              "create_appstore_compliant"} ->
         create_clean_screenshot(file, dimension_set.width, dimension_set.height)
    [] s = "convert_ipad_exact" -> convert_exact(file, dimension_set)
    [] s = "convert_ipad_simple" -> convert_no_borders(file, dimension_set, emptyRaises)
    [] s = "generate_modern_screenshots" -> generate_screenshot(file, dimension_set)
    [] OTHER -> convert_screenshot(s, file, dimension_set)


(***************************************************************************)
(* Bounds of the model.                                                    *)
(***************************************************************************)
\* the input directory of a directory converter holds entries among the
\* first NumPool candidate names
NumPool == 4

\* the pure geometry functions are applied to every source size with sides
\* in 1..MaxSmall or among GeomSpecial
MaxSmall == 6

PoolNames == <<<<"a", ".", "P", "N", "G">>, <<"b", ".", "p", "n", "g">>, <<"a", ".", "p", "n", "g">>, <<"b", ".", "P", "N", "G">>, <<"x", ".", "j", "p", "g">>>>

GeomSpecial == {35, 49, 139, 275, 1000, 1179, 1290, 2048, 2064, 2556, 2732, 2796, 3000}

GeomSides == (1..MaxSmall) \cup GeomSpecial

\* the decodable images of a batch run: a phone screenshot with alpha, a
\* one-pixel-high and a one-pixel-wide strip, a small greyscale square and an
\* image that already has the size of an iPad target
Shapes ==
  {ImageFile("RGBA", 1179, 2556), ImageFile("RGB", 3000, 1),
   ImageFile("RGBA", 1, 3000), ImageFile("L", 139, 139),
   ImageFile("RGB", 2064, 2752)}

\* what a directory entry can be in a run whose images have the given shape:
\* missing, undecodable, or an image
FileKinds(shape) == {Absent, Corrupt, shape}

Range(f) == {f[x] : x \in DOMAIN f}

Universe(s) ==
  IF s \in ListScripts THEN Range(ListedInputs)
  ELSE {PoolNames[k] : k \in 1..NumPool}

(***************************************************************************)
(* State.                                                                  *)
(***************************************************************************)
VARIABLES
  script,               \* the script that is run
  dir,                  \* input directory: name -> entry
  pc,                   \* "start", "convert", "landscape", "done", "crashed"; "geom"/"applied"
  files,                \* screenshot_files / input_files / the listed inputs
  d,                    \* position in self.dimensions (1-based)
  i,                    \* enumerate() index in files (0-based)
  outdir,               \* output directory: output name -> saved image and its origin
  generated_files,      \* the list the batch method appends to
  landscape_generated,  \* the list of create_landscape_versions
  attempts,             \* history: one entry per loop iteration, in order
  summary,              \* the per-file lines of the final summary of a mockup converter
  env_events,           \* how often the directories were changed from outside
  geo                   \* input and result of a geometry function applied on its own

vars == <<script, dir, pc, files, d, i, outdir, generated_files,
          landscape_generated, attempts, summary, env_events, geo>>

NoBox == [left |-> 0, top |-> 0, right |-> 0, bottom |-> 0]

\* geo: the function applied (op), the source size (ow, oh), the target
\* (tw, th) and what the function computed
NoGeo == [op |-> "none", ow |-> 0, oh |-> 0, tw |-> 0, th |-> 0,
          raised |-> FALSE, out |-> NoImage, new_width |-> 0, new_height |-> 0,
          x_offset |-> 0, y_offset |-> 0, box |-> NoBox]

Init ==
  /\ script \in Scripts
  /\ \E shape \in Shapes : dir \in [Universe(script) -> FileKinds(shape)]
  /\ pc = "start"
  /\ files = <<>>
  /\ d = 1
  /\ i = 0
  /\ outdir = <<>>
  /\ generated_files = <<>>
  /\ landscape_generated = <<>>
  /\ attempts = <<>>
  /\ summary = <<>>
  /\ env_events = 0
  /\ geo = NoGeo

(***************************************************************************)
(* Enumerating the input.                                                  *)
(***************************************************************************)
RECURSIVE SetToSeq(_)
SetToSeq(S) ==
  IF S = {} THEN <<>>
  ELSE LET x == CHOOSE y \in S : TRUE IN <<x>> \o SetToSeq(S \ {x})

\* faulty variant of glob: the pattern is ignored
glob_any_name(directory, suffix) ==
  SetToSeq({n \in DOMAIN directory : exists(directory[n])})

\* list(self.input_dir.glob("*" + suffix)): the entries that exist and whose
\* name ends in the suffix (case-sensitive), in directory order
glob(directory, suffix) ==
  SetToSeq({n \in DOMAIN directory : exists(directory[n]) /\ EndsWith(n, suffix)})

RECURSIVE GlobAll(_, _)
GlobAll(directory, suffixes) ==
  IF suffixes = <<>> THEN <<>>
  ELSE glob(directory, suffixes[1]) \o GlobAll(directory, Tail(suffixes))

\* get_all_screenshot_files, and sorted([f for f in glob("*.PNG")]) of the
\* mockup converters
get_all_screenshot_files(s, directory) == sorted(GlobAll(directory, GlobSuffixes(s)))

\* convert_all_screenshots up to the loop: enumerate once, return [] when
\* nothing matches
Start ==
  /\ pc = "start"
  /\ script \in DirScripts
  /\ files' = get_all_screenshot_files(script, dir)
  /\ pc' = IF files' = <<>> THEN "done" ELSE "convert"
  /\ UNCHANGED <<script, dir, d, i, outdir, generated_files, landscape_generated,
                 attempts, summary, env_events, geo>>

\* generate_all_screenshots up to the loop: the inputs are the literal list
StartList ==
  /\ pc = "start"
  /\ script \in ListScripts
  /\ files' = ListedInputs
  /\ pc' = "convert"
  /\ UNCHANGED <<script, dir, d, i, outdir, generated_files, landscape_generated,
                 attempts, summary, env_events, geo>>


(***************************************************************************)
(* One loop iteration.                                                     *)
(***************************************************************************)
Attempt(phase, dd, ii, input, result, name, config) ==
  [phase |-> phase, d |-> dd, i |-> ii, input |-> input, result |-> result,
   name |-> name, config |-> config]

Saved(image, phase, dd, ii, input, config) ==
  [img |-> image, phase |-> phase, d |-> dd, i |-> ii, input |-> input,
   config |-> config]

\* faulty variant of save: the output directory is emptied first
save_into_empty(directory, name, entry) == [n \in {name} |-> entry]

\* Image.save(output_path): creates or overwrites the file
save(directory, name, entry) ==
  [n \in DOMAIN directory \cup {name} |-> IF n = name THEN entry ELSE directory[n]]

\* the None a per-file method returns when it saved nothing
NoPath == <<>>

\* what the per-file method returns to the batch method: "return output_path"
\* behind save(), "return None" (or a bare return) for a missing input and
\* in the except branch
returned_path(result, name) == IF result = "saved" THEN name ELSE NoPath

\* faulty variant of collect: the returned value is appended unchecked
collect_unchecked(generated, output_path) == Append(generated, output_path)

\* "if output_path: generated_files.append(output_path)"
collect(generated, output_path) ==
  IF output_path # NoPath THEN Append(generated, output_path) ELSE generated

\* faulty variant of config_index: the configurations are not cycled
config_index_unbounded(s, ii) == ii

\* "config_index = i % len(self.screenshot_configs)" of the mockup converters;
\* the generators take entry i of their own list (screenshots / color_schemes)
\* and the plain converters have no per-file configuration
config_index(s, ii) ==
  IF s \in MockupConverters THEN ii % NumConfigs
  ELSE IF s \in ListScripts THEN ii
  ELSE 0

\* the final loop "for i, output_file in enumerate(generated_files)" of a
\* mockup converter: file name and the configuration printed under it
print_summary(s, generated) ==
  IF s \in MockupConverters
  THEN [k \in DOMAIN generated |->
          [name |-> generated[k], config |-> (k - 1) % NumConfigs]]
  ELSE <<>>

\* the scripts whose per-file method starts with "if not input_path.exists()"
ExistsScripts == Scripts \ TryScripts

\* generate_modern_screenshots keeps no list of generated files
KeepsList(s) == s # "generate_modern_screenshots"

\* faulty variant of NextPosition: the inner loop stops before the last file
NextPosition_without_last(s, dd, ii, n) ==
  IF ii + 2 < n THEN <<dd, ii + 1>>
  ELSE IF dd < Len(dimensions(s)) THEN <<dd + 1, 0>>
  ELSE <<0, 0>>

\* faulty variant of NextPosition: the loops are nested the other way round
NextPosition_file_major(s, dd, ii, n) ==
  IF dd < Len(dimensions(s)) THEN <<dd + 1, ii>>
  ELSE IF ii + 1 < n THEN <<1, ii + 1>>
  ELSE <<0, 0>>

\* the nested loops "for dim_set ...: for i, file in enumerate(files)": the
\* position after (dd, ii), or <<0, 0>> behind the last iteration
NextPosition(s, dd, ii, n) ==
  IF ii + 1 < n THEN <<dd, ii + 1>>
  ELSE IF dd < Len(dimensions(s)) THEN <<dd + 1, 0>>
  ELSE <<0, 0>>

\* convert_single_file / convert_screenshot / generate_compliant_screenshot /
\* generate_screenshot for the current (dimension set, file), with the caller's
\* "if output_path: generated_files.append(output_path)" and loop bookkeeping
ConvertFile ==
  /\ pc = "convert"
  /\ \E emptyRaises \in (IF script = "convert_ipad_simple" THEN BOOLEAN ELSE {FALSE}) :
     \E rendered \in {render(script, dir[files[i + 1]], dimensions(script)[d], emptyRaises)} :
       LET dimension_set == dimensions(script)[d]
           input_name    == files[i + 1]
           file          == dir[input_name]
           missing       == script \in ExistsScripts /\ ~exists(file)
           name          == output_name(script, dimension_set, i, input_name)
           result        == IF missing THEN "skipped"
                            ELSE IF ~rendered.raised THEN "saved"
                            ELSE IF script \in TryScripts THEN "error"
                            ELSE "crashed"
           next          == NextPosition(script, d, i, Len(files))
       IN  /\ attempts' = Append(attempts, Attempt("portrait", d, i, input_name, result, name,
                                                 config_index(script, i)))
           /\ outdir' = IF result = "saved"
                        THEN save(outdir, name, Saved(rendered.img, "portrait", d, i, input_name,
                                                 config_index(script, i)))
                        ELSE outdir
           /\ generated_files' = IF result # "crashed" /\ KeepsList(script)
                                 THEN collect(generated_files, returned_path(result, name))
                                 ELSE generated_files
           /\ IF result = "crashed"
              THEN pc' = "crashed" /\ UNCHANGED <<d, i, summary>>
              ELSE IF next = <<0, 0>>
              THEN /\ pc' = IF script = "create_appstore_compliant" THEN "landscape" ELSE "done"
                   /\ d' = 1
                   /\ i' = 0
                   /\ summary' = print_summary(script, generated_files')
              ELSE pc' = pc /\ d' = next[1] /\ i' = next[2] /\ UNCHANGED summary
  /\ UNCHANGED <<script, dir, files, landscape_generated, env_events, geo>>

\* one iteration of create_landscape_versions (create_appstore_compliant's
\* main runs it after generate_all_screenshots): width and height swapped
LandscapeFile ==
  /\ pc = "landscape"
  /\ \E rendered \in {create_clean_screenshot(dir[files[i + 1]],
                                              dimensions(script)[d].height,
                                              dimensions(script)[d].width)} :
     LET dim_set          == dimensions(script)[d]
         input_name       == files[i + 1]
         file             == dir[input_name]
         name             == landscape_name(dim_set, i)
         result           == IF ~exists(file) THEN "skipped"
                             ELSE IF ~rendered.raised THEN "saved"
                             ELSE "crashed"
         next             == NextPosition(script, d, i, Len(files))
     IN  /\ attempts' = Append(attempts, Attempt("landscape", d, i, input_name, result, name,
                                                  config_index(script, i)))
         /\ outdir' = IF result = "saved"
                      THEN save(outdir, name, Saved(rendered.img, "landscape", d, i, input_name,
                                               config_index(script, i)))
                      ELSE outdir
         /\ landscape_generated' = IF result = "saved"
                                   THEN Append(landscape_generated, name)
                                   ELSE landscape_generated
         /\ IF result = "crashed"
            THEN pc' = "crashed" /\ UNCHANGED <<d, i>>
            ELSE IF next = <<0, 0>>
            THEN pc' = "done" /\ d' = 1 /\ i' = 0
            ELSE pc' = pc /\ d' = next[1] /\ i' = next[2]
  /\ UNCHANGED <<script, dir, files, generated_files, summary, env_events, geo>>

Next == Start \/ StartList \/ ConvertFile \/ LandscapeFile

Spec == Init /\ [][Next]_vars



(***************************************************************************)
(* The geometry functions on their own: one source size, one application.  *)
(***************************************************************************)
FitScripts ==
  {"convert_all_originals", "create_appstore_compliant", "convert_ipad_screenshots"}

\* the (width, height) pairs of a script's dimension sets
TargetsOf(s) ==
  {<<dimensions(s)[k].width, dimensions(s)[k].height>> : k \in DOMAIN dimensions(s)}

\* the targets resize_and_fit_screenshot is called with: every dimension set
\* of the three fit scripts, and the swapped pairs of create_landscape_versions
FitTargets ==
  UNION {TargetsOf(s) : s \in FitScripts}
    \cup {<<t[2], t[1]>> : t \in TargetsOf("create_appstore_compliant")}

InitGeom ==
  /\ script = "geometry"
  /\ dir = <<>>
  /\ pc = "geom"
  /\ files = <<>>
  /\ d = 1
  /\ i = 0
  /\ outdir = <<>>
  /\ generated_files = <<>>
  /\ landscape_generated = <<>>
  /\ attempts = <<>>
  /\ summary = <<>>
  /\ env_events = 0
  /\ \E ow \in GeomSides, oh \in GeomSides : geo = [NoGeo EXCEPT !.ow = ow, !.oh = oh]

\* resize_and_fit_screenshot applied to an RGB image of the chosen size
ApplyFit ==
  /\ pc = "geom"
  /\ \E t \in FitTargets :
     \E r \in {resize_and_fit_screenshot(Image_new("RGB", geo.ow, geo.oh), t[1], t[2])} :
           geo' = [geo EXCEPT !.op = "fit", !.tw = t[1], !.th = t[2],
                              !.raised = r.raised, !.out = r.img,
                              !.new_width = r.new_width, !.new_height = r.new_height,
                              !.x_offset = r.x_offset, !.y_offset = r.y_offset]
  /\ pc' = "applied"
  /\ UNCHANGED <<script, dir, files, d, i, outdir, generated_files,
                 landscape_generated, attempts, summary, env_events>>

\* resize_no_borders applied to an RGB image of the chosen size
ApplyCrop ==
  /\ pc = "geom"
  /\ \E t \in TargetsOf("convert_ipad_simple"), emptyRaises \in BOOLEAN :
     \E r \in {resize_no_borders(Image_new("RGB", geo.ow, geo.oh), t[1], t[2], emptyRaises)} :
           geo' = [geo EXCEPT !.op = "crop", !.tw = t[1], !.th = t[2],
                              !.raised = r.raised, !.out = r.img,
                              !.new_width = r.box.right - r.box.left,
                              !.new_height = r.box.bottom - r.box.top,
                              !.box = r.box]
  /\ pc' = "applied"
  /\ UNCHANGED <<script, dir, files, d, i, outdir, generated_files,
                 landscape_generated, attempts, summary, env_events>>

\* resize_exact applied to an RGB image of the chosen size
ApplyExact ==
  /\ pc = "geom"
  /\ \E t \in TargetsOf("convert_ipad_exact") :
     \E r \in {resize_exact(Image_new("RGB", geo.ow, geo.oh), t[1], t[2])} :
           geo' = [geo EXCEPT !.op = "exact", !.tw = t[1], !.th = t[2],
                              !.raised = r.raised, !.out = r.img]
  /\ pc' = "applied"
  /\ UNCHANGED <<script, dir, files, d, i, outdir, generated_files,
                 landscape_generated, attempts, summary, env_events>>

NextGeom == ApplyFit \/ ApplyCrop \/ ApplyExact

SpecGeom == InitGeom /\ [][NextGeom]_vars


(***************************************************************************)
(* Properties of a batch run (Spec).  outdir maps each output name to the  *)
(* image that was saved under it and to the loop position that saved it;   *)
(* attempts lists the loop iterations in the order they happened.          *)
(***************************************************************************)

\* C1: every image that is saved has exactly the configured target width and
\* height: the dimension set's width and height (swapped in
\* create_landscape_versions), SCREENSHOT_WIDTH x SCREENSHOT_HEIGHT for the
\* mockup generators, whatever the size and aspect ratio of the input.
C1_SavedSizeIsTarget ==
  \A n \in DOMAIN outdir :
    LET entry         == outdir[n]
        dimension_set == dimensions(script)[entry.d]
    IN  IF entry.phase = "landscape"
        THEN entry.img.w = dimension_set.height /\ entry.img.h = dimension_set.width
        ELSE entry.img.w = dimension_set.width /\ entry.img.h = dimension_set.height

\* a finished run that saved an image from an input of another size and
\* another aspect ratio than the target
C1_SavedFromOtherSize ==
  /\ pc = "done"
  /\ \E n \in DOMAIN outdir :
       LET entry == outdir[n]
           file  == dir[entry.input]
       IN  /\ file.w # entry.img.w
           /\ file.h # entry.img.h
           /\ file.w * entry.img.h # file.h * entry.img.w

\* C2: in every script, an error raised while opening or decoding one input
\* file is caught for that file (the iteration ends as a reported error) and
\* the run goes on with the next file.
C2_OpenErrorIsCaught ==
  \A k \in DOMAIN attempts :
    dir[attempts[k].input].state = "corrupt" =>
      /\ attempts[k].result = "error"
      /\ pc # "crashed"

\* C3: in the generators that work from the fixed list of input names, a
\* listed file is skipped exactly when it is missing, a skip never ends the
\* run, an iteration that does not skip either saves its output or is the
\* uncaught exception that ends the run, and a run that reaches its end has
\* saved every listed file that is present, for every dimension set.
C3_MissingSkippedPresentSaved ==
  script \in ListScripts =>
    /\ \A k \in DOMAIN attempts :
         LET a == attempts[k]
         IN  /\ (a.result = "skipped") <=> dir[a.input] = Absent
             /\ a.result \in {"skipped", "saved", "crashed"}
             /\ a.result = "skipped" => ~(pc = "crashed" /\ k = Len(attempts))
             /\ a.result = "crashed" => pc = "crashed" /\ k = Len(attempts)
             /\ a.result = "saved" =>
                  /\ a.name \in DOMAIN outdir
                  /\ outdir[a.name].input = a.input
    /\ pc = "done" =>
         \A f \in Range(ListedInputs), dd \in DOMAIN dimensions(script) :
           dir[f] # Absent <=>
             \E k \in DOMAIN attempts :
               /\ attempts[k].input = f
               /\ attempts[k].d = dd
               /\ attempts[k].phase = "portrait"
               /\ attempts[k].result = "saved"

\* a finished run of a list generator in which a listed file was missing and
\* a later listed file was saved
C3_SkippedThenSaved ==
  /\ script \in ListScripts
  /\ pc = "done"
  /\ \E k, l \in DOMAIN attempts :
       /\ k < l
       /\ attempts[k].result = "skipped"
       /\ attempts[l].result = "saved"

\* C10: at every save the image is in RGB mode, in the mockup generators too,
\* which composite in RGBA.
C10_SavedModeIsRGB ==
  \A n \in DOMAIN outdir : outdir[n].img.mode = "RGB"

\* a mockup generator saved an image made from an RGBA input
C10_SavedFromRGBA ==
  /\ script \in MockupConverters \cup {"create_premium_screenshots", "generate_modern_screenshots"}
  /\ \E n \in DOMAIN outdir : dir[outdir[n].input].mode = "RGBA"


\* C6: within one run no two loop iterations (dimension set, index, input
\* stem) produce the same output name, the landscape iterations of
\* create_appstore_compliant included, so no save overwrites an output of
\* the same run: the directory holds one file per save.
C6_OutputNamesUnique ==
  /\ \A k, l \in DOMAIN attempts :
       k # l => attempts[k].name # attempts[l].name
  /\ Cardinality(DOMAIN outdir)
       = Cardinality({k \in DOMAIN attempts : attempts[k].result = "saved"})

\* a finished run that saved two inputs with the same stem, or the portrait
\* and the landscape output of the same (dimension set, index)
C6_SameStemOrBothOrientations ==
  /\ pc = "done"
  /\ \E k, l \in DOMAIN attempts :
       /\ k # l
       /\ attempts[k].result = "saved"
       /\ attempts[l].result = "saved"
       /\ \/ /\ attempts[k].input # attempts[l].input
             /\ stem(attempts[k].input) = stem(attempts[l].input)
          \/ /\ attempts[k].phase # attempts[l].phase
             /\ attempts[k].d = attempts[l].d
             /\ attempts[k].i = attempts[l].i

\* C7 (as stated): every output name of every script embeds a dimension
\* label, the sequence index and the stem of the input file name.
C7_NameEmbedsLabelIndexStem ==
  \A k \in DOMAIN attempts :
    LET a == attempts[k]
    IN  /\ Contains(a.name, dimensions(script)[a.d].name)
        /\ Contains(a.name, Str(a.i + 1))
        /\ Contains(a.name, stem(a.input))

\* C7 (amended): every output name embeds the 1-based sequence index (two
\* digits, except in create_premium_screenshots and
\* generate_modern_screenshots); the names of the seven directory converters
\* end in the input stem, the names of the three fixed-list generators do
\* not contain it; the name of the dimension set is embedded by the scripts
\* that have named dimension sets, while the single-size mockup scripts
\* embed neither the width nor the height.
C7_NameEmbedsWhatTheScriptFormats ==
  \A k \in DOMAIN attempts :
    LET a             == attempts[k]
        dimension_set == dimensions(script)[a.d]
        index         == IF script \in {"create_premium_screenshots",
                                        "generate_modern_screenshots"}
                         THEN Str(a.i + 1) ELSE Fmt02d(a.i + 1)
    IN  /\ Contains(a.name, <<"_">> \o index)
        /\ script \in DirScripts => EndsWith(a.name, <<"_">> \o stem(a.input) \o <<".", "p", "n", "g">>)
        /\ script \in ListScripts => ~Contains(a.name, stem(a.input))
        /\ IF dimension_set.name # <<>>
           THEN Contains(a.name, <<"a", "p", "p", "s", "t", "o", "r", "e", "_">> \o dimension_set.name \o <<"_">>)
           ELSE /\ ~Contains(a.name, Str(dimension_set.width))
                /\ ~Contains(a.name, Str(dimension_set.height))

\* create_appstore_compliant saved an output, whose name has no input stem
C7_CompliantSaved ==
  /\ script = "create_appstore_compliant"
  /\ \E k \in DOMAIN attempts :
       /\ attempts[k].result = "saved"
       /\ ~Contains(attempts[k].name, stem(attempts[k].input))

\* C8: a run attempts no (dimension set, input file) pair twice, a run that
\* reaches its end has attempted every pair once, and a step never removes
\* or changes an output that is already written, whatever happens to a
\* later file.
C8_OnceAndNoRollback ==
  /\ [](/\ \A k, l \in DOMAIN attempts :
             k # l => <<attempts[k].phase, attempts[k].d, attempts[k].i>>
                        # <<attempts[l].phase, attempts[l].d, attempts[l].i>>
        /\ pc = "done" =>
             \A dd \in DOMAIN dimensions(script), ii \in DOMAIN files :
               \E k \in DOMAIN attempts :
                 /\ attempts[k].phase = "portrait"
                 /\ attempts[k].d = dd
                 /\ attempts[k].i = ii - 1
                 /\ attempts[k].input = files[ii])
  /\ [][/\ \A n \in DOMAIN outdir : n \in DOMAIN outdir' /\ outdir'[n] = outdir[n]
        /\ Len(attempts') >= Len(attempts)
        /\ SubSeq(attempts', 1, Len(attempts)) = attempts]_vars

\* a finished run in which a conversion failed between two that were saved
C8_SavedErrorSaved ==
  /\ pc = "done"
  /\ \E k, l, m \in DOMAIN attempts :
       /\ k < l /\ l < m
       /\ attempts[k].result = "saved"
       /\ attempts[l].result = "error"
       /\ attempts[m].result = "saved"
       /\ attempts[k].name \in DOMAIN outdir

\* C9: the loop iterations happen one after the other in dimension-major
\* order: the k-th iteration is file ((k - 1) mod n) of dimension set
\* ((k - 1) div n) + 1, the landscape pass of create_appstore_compliant
\* following the portrait pass; the directory converters take the files in
\* sorted order; and when an iteration begins, the outputs of all earlier
\* iterations are already saved.
C9_SequentialDimensionMajor ==
  /\ script \in DirScripts =>
       \A j, k \in DOMAIN files : j < k => StrLess(files[j], files[k])
  /\ \A k \in DOMAIN attempts :
       LET a    == attempts[k]
           n    == Len(files)
           pass == n * Len(dimensions(script))
           p    == IF k > pass THEN k - pass ELSE k
       IN  /\ a.phase = IF k > pass THEN "landscape" ELSE "portrait"
           /\ a.d = ((p - 1) \div n) + 1
           /\ a.i = (p - 1) % n
           /\ a.input = files[a.i + 1]
  /\ DOMAIN outdir
       = {attempts[k].name : k \in {j \in DOMAIN attempts : attempts[j].result = "saved"}}

\* a finished run of a converter with four dimension sets over at least two
\* files
C9_FourDimensionsTwoFiles ==
  /\ pc = "done"
  /\ script = "convert_ipad_exact"
  /\ Len(files) >= 2
  /\ Len(attempts) = 4 * Len(files)

(***************************************************************************)
(* Properties of the geometry functions (SpecGeom).                        *)
(***************************************************************************)

\* C4 (as stated): resize_and_fit_screenshot pastes the scaled image with
\* equal padding on opposite sides: left = right and top = bottom.
C4_PaddingEqual ==
  geo.op = "fit" /\ ~geo.raised =>
    /\ geo.x_offset = geo.tw - geo.new_width - geo.x_offset
    /\ geo.y_offset = geo.th - geo.new_height - geo.y_offset

\* C4 (amended): whenever resize_and_fit_screenshot pastes the scaled image,
\* the paddings on opposite sides differ by at most one pixel: the right
\* (bottom) padding is the left (top) padding, or one pixel more when the
\* free space on that axis is odd.
C4_PaddingWithinOnePixel ==
  geo.op = "fit" /\ ~geo.raised =>
    LET left   == geo.x_offset
        right  == geo.tw - geo.new_width - geo.x_offset
        top    == geo.y_offset
        bottom == geo.th - geo.new_height - geo.y_offset
    IN  /\ 0 <= left /\ 0 <= top
        /\ right = left + ((geo.tw - geo.new_width) % 2)
        /\ bottom = top + ((geo.th - geo.new_height) % 2)

\* an image was pasted with real padding that is one pixel larger on the
\* right or at the bottom
C4_OddPadding ==
  /\ geo.op = "fit"
  /\ ~geo.raised
  /\ \/ /\ geo.x_offset > 0
        /\ geo.tw - geo.new_width - geo.x_offset = geo.x_offset + 1
     \/ /\ geo.y_offset > 0
        /\ geo.th - geo.new_height - geo.y_offset = geo.y_offset + 1

C11_ExactFourPerReadableFile ==
  script = "convert_ipad_exact" /\ pc = "done" =>
    LET readable == {k \in DOMAIN files : dir[files[k]].state = "image"}
    IN  /\ [k \in DOMAIN dimensions(script) |->
              <<dimensions(script)[k].width, dimensions(script)[k].height>>]
             = <<<<2064, 2752>>, <<2752, 2064>>, <<2048, 2732>>, <<2732, 2048>>>>
        /\ Len(generated_files) = 4 * Cardinality(readable)
        /\ \A j, l \in DOMAIN generated_files :
             j # l => generated_files[j] # generated_files[l]
        /\ \A j \in DOMAIN generated_files :
             /\ generated_files[j] \in DOMAIN outdir
             /\ LET e == outdir[generated_files[j]]
                IN  e.img = resize(convert(Image_open(dir[e.input]).img, "RGB"),
                                   dimensions(script)[e.d].width,
                                   dimensions(script)[e.d].height, FALSE).img
        /\ \A k \in readable, dd \in DOMAIN dimensions(script) :
             \E j \in DOMAIN generated_files :
               /\ outdir[generated_files[j]].input = files[k]
               /\ outdir[generated_files[j]].d = dd
               /\ outdir[generated_files[j]].img.w = dimensions(script)[dd].width
               /\ outdir[generated_files[j]].img.h = dimensions(script)[dd].height

\* convert_ipad_exact finished over two readable files and an unreadable one
C11_TwoReadableOneNot ==
  /\ script = "convert_ipad_exact"
  /\ pc = "done"
  /\ Len(files) = 3
  /\ Len(generated_files) = 8


\* C12 (as stated): a finished run of a mockup converter has converted every
\* file of the input directory whose extension is PNG in either letter case.
C12_MockupsTakeBothCases ==
  script \in MockupConverters /\ pc = "done" =>
    \A n \in DOMAIN dir :
      (dir[n].state = "image" /\ (EndsWith(n, <<".", "P", "N", "G">>) \/ EndsWith(n, <<".", "p", "n", "g">>)))
        => \E k \in DOMAIN attempts :
             attempts[k].input = n /\ attempts[k].result = "saved"


(***************************************************************************)
(* Further properties of the geometry functions (SpecGeom).                *)
(***************************************************************************)

\* C13 (as stated): in resize_and_fit_screenshot, for every source size and
\* target, the scaled size is inside the canvas, both paste offsets are
\* >= 0, and the scaled image touches the canvas on at least one axis:
\* new_width = target_width or new_height = target_height.
C13_ScaledInsideAndTouching ==
  geo.op = "fit" =>
    /\ geo.new_width <= geo.tw
    /\ geo.new_height <= geo.th
    /\ geo.x_offset >= 0
    /\ geo.y_offset >= 0
    /\ (geo.new_width = geo.tw \/ geo.new_height = geo.th)

\* C14 (as stated): for every source with width >= 1 and height >= 1 and
\* every target, the truncated scaled size has new_width >= 1 and
\* new_height >= 1, so the resize is never asked for an empty image.
C14_ScaledSidesPositive ==
  geo.op = "fit" =>
    /\ geo.new_width >= 1
    /\ geo.new_height >= 1
    /\ ~geo.raised


\* C15: resize_no_borders never crops both axes: a source wider than the
\* target's aspect ratio keeps its full height and loses only columns, any
\* other source keeps its full width and loses only rows; the crop window
\* is centred, the margin removed at the right (bottom) being the margin
\* removed at the left (top) or one pixel more.
C15_CropOneAxisCentred ==
  geo.op = "crop" =>
    LET wider  == geo.ow * geo.th > geo.oh * geo.tw
        left   == geo.box.left
        right  == geo.ow - geo.box.right
        top    == geo.box.top
        bottom == geo.oh - geo.box.bottom
    IN  /\ wider => top = 0 /\ bottom = 0
        /\ ~wider => left = 0 /\ right = 0
        /\ 0 <= left /\ left <= right /\ right <= left + 1
        /\ 0 <= top /\ top <= bottom /\ bottom <= top + 1

\* a wider source lost an odd number of columns, or a taller one an odd
\* number of rows: the removed margins differ by one pixel
C15_OddMargins ==
  /\ geo.op = "crop"
  /\ ~geo.raised
  /\ \/ /\ geo.box.left > 0
        /\ geo.ow - geo.box.right = geo.box.left + 1
        /\ geo.box.top = 0 /\ geo.box.bottom = geo.oh
     \/ /\ geo.box.top > 0
        /\ geo.oh - geo.box.bottom = geo.box.top + 1
        /\ geo.box.left = 0 /\ geo.box.right = geo.ow


(***************************************************************************)
(* The mockup converters over a directory of many files: more inputs than  *)
(* marketing configurations.                                               *)
(***************************************************************************)
\* the input directory holds the first n of MaxMany numbered screenshots
MaxMany == 10

\* the k-th numbered screenshot, with the extension the script globs for
ManyName(s, k) == <<"a">> \o Fmt02d(k) \o GlobSuffixes(s)[1]

InitMany ==
  /\ script \in MockupConverters
  /\ \E n \in 0..MaxMany, shape \in Shapes :
       dir = [name \in {ManyName(script, k) : k \in 1..n} |-> shape]
  /\ pc = "start"
  /\ files = <<>>
  /\ d = 1
  /\ i = 0
  /\ outdir = <<>>
  /\ generated_files = <<>>
  /\ landscape_generated = <<>>
  /\ attempts = <<>>
  /\ summary = <<>>
  /\ env_events = 0
  /\ geo = NoGeo

NextMany == Start \/ ConvertFile

SpecMany == InitMany /\ [][NextMany]_vars

\* C16: in the mockup converters the input at sorted position i is rendered
\* with configuration i mod 8: the index is always one of the eight
\* configurations, and inputs eight positions apart get the same one.
C16_ConfigIsIndexModEight ==
  script \in MockupConverters =>
    /\ \A k \in DOMAIN attempts :
         /\ attempts[k].input = files[attempts[k].i + 1]
         /\ attempts[k].config = attempts[k].i % 8
         /\ attempts[k].config \in 0..7
         /\ attempts[k].result = "saved" =>
              outdir[attempts[k].name].config = attempts[k].config
    /\ \A k, l \in DOMAIN attempts :
         attempts[l].i = attempts[k].i + 8 => attempts[l].config = attempts[k].config
    /\ \A j, k \in DOMAIN files : j < k => StrLess(files[j], files[k])

\* a finished run over more than eight inputs: the ninth was rendered with
\* the first configuration again
C16_NinthFileFirstConfig ==
  /\ script \in MockupConverters
  /\ pc = "done"
  /\ Len(files) > 8
  /\ attempts[9].result = "saved"
  /\ attempts[9].config = 0
  /\ attempts[1].config = 0


(***************************************************************************)
(* A run whose directories are changed from outside while it is in         *)
(* progress: the glob at the start and the exists()/open of each iteration *)
(* read the file system at different times.                                *)
(***************************************************************************)
\* the directories are changed from outside at most MaxEnvEvents times
MaxEnvEvents == 1

\* the scripts run against a changing directory
EnvScripts == MockupConverters \cup {"convert_all_originals"}

InitEnv ==
  /\ script \in EnvScripts
  /\ dir \in [Universe(script) -> FileKinds(ImageFile("RGBA", 1179, 2556))]
  /\ pc = "start"
  /\ files = <<>>
  /\ d = 1
  /\ i = 0
  /\ outdir = <<>>
  /\ generated_files = <<>>
  /\ landscape_generated = <<>>
  /\ attempts = <<>>
  /\ summary = <<>>
  /\ env_events = 0
  /\ geo = NoGeo

\* a file of the input directory is deleted
EnvRemove ==
  /\ pc \in {"start", "convert"}
  /\ env_events < MaxEnvEvents
  /\ \E n \in DOMAIN dir :
       /\ dir[n] # Absent
       /\ dir' = [dir EXCEPT ![n] = Absent]
  /\ env_events' = env_events + 1
  /\ UNCHANGED <<script, pc, files, d, i, outdir, generated_files,
                 landscape_generated, attempts, summary, geo>>

\* a new image file appears in the input directory
EnvCreate ==
  /\ pc \in {"start", "convert"}
  /\ env_events < MaxEnvEvents
  /\ \E n \in DOMAIN dir :
       /\ dir[n] = Absent
       /\ dir' = [dir EXCEPT ![n] = ImageFile("RGBA", 1179, 2556)]
  /\ env_events' = env_events + 1
  /\ UNCHANGED <<script, pc, files, d, i, outdir, generated_files,
                 landscape_generated, attempts, summary, geo>>

\* a foreign image file appears in the output directory
EnvCreateOutput ==
  /\ pc \in {"start", "convert"}
  /\ env_events < MaxEnvEvents
  /\ \E n \in DOMAIN dir :
       /\ n \notin DOMAIN outdir
       /\ outdir' = save(outdir, n, Saved(Image_new("RGBA", 1179, 2556),
                                          "foreign", 0, 0, n, 0))
  /\ env_events' = env_events + 1
  /\ UNCHANGED <<script, dir, pc, files, d, i, generated_files,
                 landscape_generated, attempts, summary, geo>>

NextEnv == Start \/ ConvertFile \/ EnvRemove \/ EnvCreate \/ EnvCreateOutput

SpecEnv == InitEnv /\ [][NextEnv]_vars

\* C17 (as stated): every line of the final summary of a mockup converter
\* shows the configuration its file was rendered with, also when an
\* enumerated input had vanished and was skipped.
C17_SummaryShowsRenderConfig ==
  script \in MockupConverters =>
    \A k \in DOMAIN summary :
      /\ summary[k].name \in DOMAIN outdir
      /\ outdir[summary[k].name].config = summary[k].config


\* C19: the input files are enumerated once, before anything is written,
\* and the list never changes afterwards; every iteration takes its file
\* from that list, so a file that appears in the input or in the output
\* directory while the run is in progress is never processed; and a run
\* that reaches its end has attempted every enumerated file for every
\* dimension set, also a file that was deleted in the meantime.
C19_EnumeratedOnceAllAttempted ==
  /\ [](/\ pc = "start" => attempts = <<>> /\ generated_files = <<>> /\ files = <<>>
        /\ \A k \in DOMAIN attempts : attempts[k].input = files[attempts[k].i + 1]
        /\ \A n \in DOMAIN outdir :
             outdir[n].phase # "foreign" => outdir[n].input \in Range(files)
        /\ pc = "done" =>
             \A j \in DOMAIN files, dd \in DOMAIN dimensions(script) :
               \E k \in DOMAIN attempts :
                 /\ attempts[k].input = files[j]
                 /\ attempts[k].d = dd
                 /\ attempts[k].i = j - 1)
  /\ [][pc # "start" => files' = files]_vars

\* a finished run during which a matching file appeared in the input
\* directory: it exists, but was not enumerated
C19_NewFileNotEnumerated ==
  /\ pc = "done"
  /\ files # <<>>
  /\ \E n \in DOMAIN dir :
       /\ dir[n].state = "image"
       /\ \E k \in DOMAIN GlobSuffixes(script) : EndsWith(n, GlobSuffixes(script)[k])
       /\ n \notin Range(files)

\* C18: in the multi-dimension converters the index embedded in the output
\* names of an input file is the file's position in the sorted input list
\* plus one, written with two digits: it is the same for every dimension
\* set and does not depend on which other files failed.
C18_IndexIsSortedPosition ==
  script \in TryScripts =>
    /\ \A j, k \in DOMAIN files : j < k => StrLess(files[j], files[k])
    /\ \A k \in DOMAIN attempts :
         \E j \in DOMAIN files :
           /\ files[j] = attempts[k].input
           /\ attempts[k].name
                = <<"a", "p", "p", "s", "t", "o", "r", "e", "_">> \o dimensions(script)[attempts[k].d].name \o <<"_">>
                    \o Fmt02d(j) \o <<"_">> \o stem(attempts[k].input) \o <<".", "p", "n", "g">>
    /\ \A k, l \in DOMAIN attempts :
         attempts[k].input = attempts[l].input => attempts[k].i = attempts[l].i

\* a finished run in which a file failed and a file behind it in the list
\* was saved for two dimension sets
C18_SavedTwiceBehindFailure ==
  /\ script \in TryScripts
  /\ pc = "done"
  /\ \E k, l, m \in DOMAIN attempts :
       /\ attempts[k].result = "error"
       /\ attempts[l].result = "saved"
       /\ attempts[m].result = "saved"
       /\ attempts[k].i < attempts[l].i
       /\ attempts[l].input = attempts[m].input
       /\ attempts[l].d # attempts[m].d

C21_ReturnedListIsSavedInOrder ==
  (script \in Scripts /\ KeepsList(script)) =>
    LET SavedPortrait(a) == a.result = "saved" /\ a.phase = "portrait"
        saved_attempts   == SelectSeq(attempts, SavedPortrait)
    IN  /\ Len(generated_files) = Len(saved_attempts)
        /\ \A j \in DOMAIN generated_files :
             /\ generated_files[j] # NoPath
             /\ generated_files[j] = saved_attempts[j].name
             /\ generated_files[j] \in DOMAIN outdir
        /\ \A k \in DOMAIN attempts :
             attempts[k].result # "saved" =>
               /\ attempts[k].name \notin DOMAIN outdir
               /\ \A j \in DOMAIN generated_files :
                    generated_files[j] # attempts[k].name

\* create_premium_screenshots returned a list of at least two paths from a
\* run in which a listed input was missing
C21_PremiumSkippedOne ==
  /\ script = "create_premium_screenshots"
  /\ pc = "done"
  /\ Len(generated_files) >= 2
  /\ \E k \in DOMAIN attempts :
       /\ attempts[k].result = "skipped"
       /\ k < Len(attempts)

====
